---------------------------- MODULE Spec2Model ----------------------------
(***************************************************************************)
(* Model of the network discovery exporter (main.go): the subnet sweep,    *)
(* the neighbor-table parsing, the hostname lookup, the rule-based         *)
(* classifier and the discovery cycle that publishes the inventory gauge.  *)
(*                                                                         *)
(* Go strings are modelled as sequences of one-character strings, so that  *)
(* strings.ToLower, HasPrefix, Contains, Fields and Trim are computed and  *)
(* not assumed.  Device-type labels are never taken apart by the program   *)
(* and are kept as TLA+ strings.                                           *)
(***************************************************************************)
EXTENDS Integers, Sequences, FiniteSets, TLC

(***************************************************************************)
(* Bounds of the model.                                                    *)
(***************************************************************************)
\* Host-ids probed per cycle in the model; the program sweeps 1..254
\* (main.go:176).  The barrier logic does not depend on the count.
NumHosts == 3
\* Longest rule list of a configuration drawn for the classifier.
MaxRules == 2
\* Most lines of a command output drawn for the neighbor-table functions.
MaxLines == 2

(***************************************************************************)
(* The strings package, on sequences of characters.                        *)
(***************************************************************************)
UpperLetters ==
    <<"A","B","C","D","E","F","G","H","I","J","K","L","M",
      "N","O","P","Q","R","S","T","U","V","W","X","Y","Z">>
LowerLetters ==
    <<"a","b","c","d","e","f","g","h","i","j","k","l","m",
      "n","o","p","q","r","s","t","u","v","w","x","y","z">>

\* unicode.ToLower on one ASCII character.
ToLowerChar(c) ==
    IF \E k \in 1..26 : UpperLetters[k] = c
    THEN LowerLetters[CHOOSE k \in 1..26 : UpperLetters[k] = c]
    ELSE c

\* strings.ToLower
ToLower(s) == [k \in 1..Len(s) |-> ToLowerChar(s[k])]

\* A HasPrefix that an empty prefix never satisfies.
HasPrefixNonEmpty(s, prefix) ==
    /\ Len(prefix) > 0
    /\ Len(prefix) <= Len(s)
    /\ SubSeq(s, 1, Len(prefix)) = prefix

\* strings.HasPrefix
HasPrefix(s, prefix) ==
    /\ Len(prefix) <= Len(s)
    /\ SubSeq(s, 1, Len(prefix)) = prefix

\* strings.Contains
Contains(s, substr) ==
    \E k \in 0..(Len(s) - Len(substr)) : SubSeq(s, k + 1, k + Len(substr)) = substr

\* unicode.IsSpace, on the white space a line of command output can hold.
IsSpace(c) == c \in {" ", "\t", "\r", "\f"}

RECURSIVE FieldsFrom(_, _, _)
FieldsFrom(s, k, cur) ==
    IF k > Len(s)
    THEN IF cur = <<>> THEN <<>> ELSE <<cur>>
    ELSE IF IsSpace(s[k])
         THEN (IF cur = <<>> THEN <<>> ELSE <<cur>>) \o FieldsFrom(s, k + 1, <<>>)
         ELSE FieldsFrom(s, k + 1, Append(cur, s[k]))

\* strings.Fields: the maximal runs of non-space characters, in order.
Fields(s) == FieldsFrom(s, 1, <<>>)

\* strings.Trim: drop the leading and trailing characters that are in cutset.
Trim(s, cutset) ==
    LET keep == {k \in 1..Len(s) : s[k] \notin cutset}
        lo == CHOOSE k \in keep : \A j \in keep : k <= j
        hi == CHOOSE k \in keep : \A j \in keep : k >= j
    IN IF keep = {} THEN <<>> ELSE SubSeq(s, lo, hi)

(***************************************************************************)
(* Sentinels and error values.                                             *)
(***************************************************************************)
\* A nil error.
NoErr == "nil"
\* fmt.Errorf("failed to run arp: %v", err)
ErrArpRun == "failed to run arp"
\* fmt.Errorf("IP not found in ARP table")
ErrNotFound == "IP not found in ARP table"
\* The error of os.ReadFile or yaml.Unmarshal.
ErrConfig == "config read or parse error"
\* The hostname returned for the placeholder "?".
UnknownHost == <<"<","u","n","k","n","o","w","n",">">>
\* The label of a device no rule matches.
UnknownType == "unknown"

(***************************************************************************)
(* detectDeviceType                                                        *)
(***************************************************************************)
\* One rule matches: a MAC prefix of the rule is a prefix of mac, or a
\* hostname keyword of the rule occurs in hostname (lines 158-167).  mac and
\* hostname are already lower-cased; the rule's strings are used as declared.
RuleMatches(rule, mac, hostname) ==
    \/ \E k \in 1..Len(rule.mac_prefixes) : HasPrefix(mac, rule.mac_prefixes[k])
    \/ \E k \in 1..Len(rule.hostname_keywords) :
          Contains(hostname, rule.hostname_keywords[k])

\* A classifier that tries the MAC prefixes of every rule before any
\* hostname keyword.
MatchRulesMacFirst(rules, mac, hostname) ==
    LET byMac == {n \in 1..Len(rules) :
                    \E k \in 1..Len(rules[n].mac_prefixes) :
                        HasPrefix(mac, rules[n].mac_prefixes[k])}
        byKw  == {n \in 1..Len(rules) :
                    \E k \in 1..Len(rules[n].hostname_keywords) :
                        Contains(hostname, rules[n].hostname_keywords[k])}
    IN IF byMac # {}
       THEN rules[CHOOSE n \in byMac : \A m \in byMac : n <= m].type
       ELSE IF byKw # {}
            THEN rules[CHOOSE n \in byKw : \A m \in byKw : n <= m].type
            ELSE UnknownType

\* A classifier that falls back to the last rule's type when nothing matches.
MatchRulesLastDefault(rules, mac, hostname) ==
    LET hit == {n \in 1..Len(rules) : RuleMatches(rules[n], mac, hostname)}
    IN IF hit # {}
       THEN rules[CHOOSE n \in hit : \A m \in hit : n <= m].type
       ELSE IF Len(rules) > 0 THEN rules[Len(rules)].type ELSE UnknownType

RECURSIVE MatchFrom(_, _, _, _)
MatchFrom(rules, n, mac, hostname) ==
    IF n > Len(rules)
    THEN UnknownType
    ELSE IF RuleMatches(rules[n], mac, hostname)
         THEN rules[n].type
         ELSE MatchFrom(rules, n + 1, mac, hostname)

\* The loop over cfg.DeviceTypes (lines 157-169): the type of the first rule,
\* in load order, of which a matcher succeeds; "unknown" when the loop ends.
MatchRules(rules, mac, hostname) == MatchFrom(rules, 1, mac, hostname)

\* A classifier that returns Go's zero value with the error.
detectDeviceTypeZeroOnErr(mac, hostname, cfg) ==
    IF ~cfg.readable
    THEN <<"", ErrConfig>>
    ELSE <<MatchRules(cfg.device_types, ToLower(mac), ToLower(hostname)), NoErr>>

\* A classifier that lower-cases the hostname only.
detectDeviceTypeRawMac(mac, hostname, cfg) ==
    IF ~cfg.readable
    THEN <<UnknownType, ErrConfig>>
    ELSE <<MatchRules(cfg.device_types, mac, ToLower(hostname)), NoErr>>

\* detectDeviceType(mac, hostname, configPath): <<label, error>>.  cfg is what
\* os.ReadFile and yaml.Unmarshal yield for the file at configPath now.
detectDeviceType(mac, hostname, cfg) ==
    IF ~cfg.readable
    THEN <<UnknownType, ErrConfig>>
    ELSE <<MatchRules(cfg.device_types, ToLower(mac), ToLower(hostname)), NoErr>>

(***************************************************************************)
(* getARPTable and resolveHostname, on the lines of the output of arp -a.  *)
(***************************************************************************)
\* A Go map with no entry (also the nil map: ranging over it visits nothing).
EmptyMap == [x \in {} |-> <<>>]

\* result[ip] = mac
MapSet(m, key, val) ==
    [x \in (DOMAIN m) \cup {key} |-> IF x = key THEN val ELSE m[x]]

RECURSIVE ParseLines(_, _, _)
ParseLines(lines, n, result) ==
    IF n > Len(lines)
    THEN result
    ELSE LET parts == Fields(lines[n])
         IN IF Len(parts) >= 4
            THEN ParseLines(lines, n + 1,
                            MapSet(result, Trim(parts[2], {"(", ")"}), parts[4]))
            ELSE ParseLines(lines, n + 1, result)

RECURSIVE ParseLinesFirstWins(_, _, _)
ParseLinesFirstWins(lines, n, result) ==
    IF n > Len(lines)
    THEN result
    ELSE LET parts == Fields(lines[n])
             ip == Trim(parts[2], {"(", ")"})
         IN IF Len(parts) >= 4 /\ ip \notin DOMAIN result
            THEN ParseLinesFirstWins(lines, n + 1, MapSet(result, ip, parts[4]))
            ELSE ParseLinesFirstWins(lines, n + 1, result)

\* A getARPTable that keeps the first line of an address.
getARPTableFirstWins(ok, lines) ==
    IF ~ok THEN EmptyMap ELSE ParseLinesFirstWins(lines, 1, EmptyMap)

\* A getARPTable that parses whatever the failed command printed.
getARPTableIgnoresError(ok, lines) == ParseLines(lines, 1, EmptyMap)

\* getARPTable: ok says whether the command ran; lines is its output split
\* at the line breaks.
getARPTable(ok, lines) ==
    IF ~ok THEN EmptyMap ELSE ParseLines(lines, 1, EmptyMap)

RECURSIVE ScanLines(_, _, _)
ScanLines(lines, n, ip) ==
    IF n > Len(lines)
    THEN <<<<>>, ErrNotFound>>
    ELSE IF Contains(lines[n], ip) /\ Len(Fields(lines[n])) > 0
         THEN IF Fields(lines[n])[1] # <<"?">>
              THEN <<Fields(lines[n])[1], NoErr>>
              ELSE <<UnknownHost, NoErr>>
         ELSE ScanLines(lines, n + 1, ip)

\* resolveHostname(ip): <<hostname, error>>.
resolveHostname(ok, lines, ip) ==
    IF ~ok THEN <<<<>>, ErrArpRun>> ELSE ScanLines(lines, 1, ip)

(***************************************************************************)
(* Strings of the program and of its environment.                          *)
(***************************************************************************)
\* const subnet = "192.168.1."
subnet == <<"1","9","2",".","1","6","8",".","1",".">>

DecimalDigits == <<"0","1","2","3","4","5","6","7","8","9">>

RECURSIVE Itoa(_)
\* The %d of fmt.Sprintf, for a host-id.
Itoa(n) ==
    IF n < 10
    THEN <<DecimalDigits[n + 1]>>
    ELSE Itoa(n \div 10) \o <<DecimalDigits[(n % 10) + 1]>>

\* A target built from a host-id counted from zero.
TargetOffByOne(i) == subnet \o Itoa(i - 1)
\* fmt.Sprintf("%s%d", subnet, i)
Target(i) == subnet \o Itoa(i)

\* The last host-id of the fan-out loop of the program (i <= 254).
LastHost == 254

IP5  == Target(5)
IP50 == Target(50)
IP7  == Target(7)
IP9  == Target(9)

Mac5     == <<"8",":","a","a",":","b","b",":","c","c",":","d","d",":","e","e">>
Mac5b    == <<"0","0",":","1","a",":","1","1",":","0","0",":","0","0",":","0","1">>
Mac50    == <<"a","c",":","b","c",":","3","2",":","1","1",":","2","2",":","3","3">>
Mac50Up  == <<"A","C",":","B","C",":","3","2",":","1","1",":","2","2",":","3","3">>
MacZero  == <<"0","0",":","0","0",":","0","0",":","0","0",":","0","0",":","0","0">>
Incomplete == <<"(","i","n","c","o","m","p","l","e","t","e",")">>

HostPlaceholder == <<"?">>
HostIphone      == <<"j","o","h","n","s","-","i","p","h","o","n","e">>
HostIphoneMixed == <<"J","o","h","n","s","-","i","P","h","o","n","e">>
HostAndroid     == <<"a","n","d","r","o","i","d","-","7">>
HostOther       == <<"u","n","k","n","o","w","n","-","h","o","s","t">>

\* One line of arp -a: host (ip) at mac on en0
ArpLine(host, ip, mac) ==
    host \o <<" ","(">> \o ip \o <<")"," ","a","t"," ">> \o mac
         \o <<" ","o","n"," ","e","n","0">>

Line5     == ArpLine(HostPlaceholder, IP5, Mac5)
Line5b    == ArpLine(HostPlaceholder, IP5, Mac5b)
Line50    == ArpLine(HostIphone, IP50, Mac50)
Line7     == ArpLine(HostAndroid, IP7, Incomplete)
\* A line of three fields.
LineShort == HostPlaceholder \o <<" ","(">> \o IP9 \o <<")"," ","a","t">>
LineBlank == <<>>

\* The neighbor-table outputs the discovery cycle is run against.
ArpOutputs ==
    { <<>>, <<Line5>>, <<Line50>>, <<Line50, Line5>>, <<Line5, Line50>> }

(***************************************************************************)
(* Rule sources.                                                           *)
(***************************************************************************)
Rule(type, prefixes, keywords) ==
    [type |-> type, mac_prefixes |-> prefixes, hostname_keywords |-> keywords]

\* The rule of the end-to-end scenario.
RuleApple ==
    Rule("apple", << <<"a","c",":","b","c",":","3","2">> >>,
                  << <<"i","p","h","o","n","e">> >>)
\* The same rule declared with upper-case and mixed-case matchers.
RuleAppleUpper ==
    Rule("apple-upper", << <<"A","C",":","B","C",":","3","2">> >>,
                        << <<"i","P","h","o","n","e">> >>)
RuleMobile ==
    Rule("mobile", << <<"0","0",":","1","a",":","1","1">> >>,
                   << <<"a","n","d","r","o","i","d">> >>)
\* Matches by hostname keyword only.
RulePhone == Rule("phone", <<>>, << <<"p","h","o","n","e">> >>)
\* Matches by MAC prefix only.
RuleAcme  == Rule("acme", << <<"a","c",":">> >>, <<>>)

\* Declares the empty string as a MAC prefix.
RuleAnyMac  == Rule("any-mac", << <<>> >>, <<>>)
\* Declares the empty string as a hostname keyword.
RuleAnyHost == Rule("any-host", <<>>, << <<>> >>)

\* The file cannot be read or parsed.
Unreadable == [readable |-> FALSE, device_types |-> <<>>]
\* The parsed Config of a readable file.
Readable(rules) == [readable |-> TRUE, device_types |-> rules]

\* The rule sources the discovery cycle is run against.
Configs == { Unreadable, Readable(<<>>), Readable(<<RuleApple>>) }

(***************************************************************************)
(* State.                                                                  *)
(***************************************************************************)
VARIABLES
    pc,             \* where the discovery goroutine of main stands
    i,              \* the loop variable of the fan-out loop
    wg,             \* the counter of the sync.WaitGroup
    inflight,       \* the targets of the ping goroutines still running
    arpOut,         \* what arp -a prints now: the OS neighbor cache, as lines
    cfgFile,        \* what reading and parsing config.yaml yields now
    arpTable,       \* the map getARPTable returned in the current cycle
    todo,           \* the keys the range loop has not visited yet
    deviceDetails,  \* the GaugeVec: label values -> gauge value
    cur,            \* the locals of the last range iteration of the cycle
    pastIps,        \* history: the keys of the snapshots of earlier cycles
    arpErr,         \* whether getARPTable logged a command error this cycle
    calls,          \* history: the calls made on deviceDetails this cycle
    launched,       \* history: the targets handed to go ping this cycle
    sampler,        \* the goroutine of recordMetrics and its four gauges
    classify,       \* one call of detectDeviceType: arguments and results
    lookup          \* one call of getARPTable or resolveHostname

cycleVars == <<pc, i, wg, inflight, arpOut, cfgFile, arpTable, todo,
               deviceDetails, cur, pastIps, arpErr, calls, launched, sampler>>
vars == <<pc, i, wg, inflight, arpOut, cfgFile, arpTable, todo,
          deviceDetails, cur, pastIps, arpErr, calls, launched, sampler,
          classify, lookup>>

\* The locals of the range loop before its first iteration.
NoEntry ==
    [ip |-> <<>>, mac |-> <<>>, hostname |-> <<>>, herr |-> NoErr,
     deviceType |-> "", terr |-> NoErr, visited |-> FALSE]

\* No call of detectDeviceType is being examined.
ClassifyIdle ==
    [mac |-> <<>>, hostname |-> <<>>, cfg |-> Unreadable,
     called |-> FALSE, label |-> "", err |-> NoErr]

\* No call of getARPTable or resolveHostname is being examined.
LookupIdle ==
    [ok |-> TRUE, lines |-> <<>>, ip |-> <<>>, called |-> "",
     table |-> EmptyMap, hostname |-> <<>>, err |-> NoErr]

(***************************************************************************)
(* The GaugeVec.                                                           *)
(***************************************************************************)
\* A Reset that deletes nothing.
ResetKeeps(gauge) == gauge
\* deviceDetails.Reset(): every label set is deleted.
Reset(gauge) == EmptyMap

\* deviceDetails.WithLabelValues(ip, mac, hostname, deviceType).Set(v)
SetGauge(gauge, labels, v) == MapSet(gauge, labels, v)

\* One call on the GaugeVec.
ResetCall == [op |-> "Reset", labels |-> <<>>, value |-> 0]
SetCall(labels, v) == [op |-> "Set", labels |-> labels, value |-> v]

ApplyCall(gauge, call) ==
    IF call.op = "Reset"
    THEN Reset(gauge)
    ELSE SetGauge(gauge, call.labels, call.value)

RECURSIVE ApplyCalls(_, _)
\* The GaugeVec after the calls cs, in order.
ApplyCalls(gauge, cs) ==
    IF cs = <<>> THEN gauge ELSE ApplyCalls(ApplyCall(gauge, Head(cs)), Tail(cs))

\* The calls scanAndUpdateMetrics makes on entry (line 173).
EntryCalls == <<ResetCall>>

\* An iteration that clears the inventory before it sets its record.
IterationCallsResetEach(ip, mac, hostname, deviceType) ==
    <<ResetCall, SetCall(<<ip, mac, hostname, deviceType>>, 1)>>
\* The calls one iteration of the range loop makes (line 195).
IterationCalls(ip, mac, hostname, deviceType) ==
    <<SetCall(<<ip, mac, hostname, deviceType>>, 1)>>

(***************************************************************************)
(* recordMetrics: the sampler goroutine and its gauges.                    *)
(***************************************************************************)
\* What cpu.Percent(0, false) can return: <<values, ok>>.
CpuReadings == { <<<<>>, FALSE>>, <<<<>>, TRUE>>, <<<<17>>, TRUE>> }
\* What mem.VirtualMemory() can return: <<stat, ok>>.
MemReadings ==
    { <<[UsedPercent |-> 0, Total |-> 0, Used |-> 0], FALSE>>,
      <<[UsedPercent |-> 75, Total |-> 16, Used |-> 12], TRUE>> }

\* The goroutine is about to sample and the four gauges hold 0.
SamplerInit ==
    [pc |-> "sample", cpuUsage |-> 0, memoryUsage |-> 0,
     totalMemory |-> 0, usedMemory |-> 0]

(***************************************************************************)
(* The discovery goroutine: for { scanAndUpdateMetrics(); Sleep(30s) }     *)
(***************************************************************************)
Init ==
    /\ pc = "start"
    /\ i = 1
    /\ wg = 0
    /\ inflight = {}
    /\ arpOut \in ArpOutputs
    /\ cfgFile \in Configs
    /\ arpTable = EmptyMap
    /\ todo = {}
    /\ deviceDetails = EmptyMap
    /\ cur = NoEntry
    /\ pastIps = {}
    /\ arpErr = FALSE
    /\ calls = <<>>
    /\ launched = <<>>
    /\ sampler = SamplerInit
    /\ classify = ClassifyIdle
    /\ lookup = LookupIdle

\* scanAndUpdateMetrics is entered: the inventory is cleared (line 173).
StartCycle ==
    /\ pc = "start"
    /\ deviceDetails' = ApplyCalls(deviceDetails, EntryCalls)
    /\ calls' = EntryCalls
    /\ launched' = <<>>
    /\ arpErr' = FALSE
    /\ i' = 1
    /\ wg' = 0
    /\ cur' = NoEntry
    /\ pc' = "spawn"
    /\ UNCHANGED <<inflight, arpOut, cfgFile, arpTable, todo, pastIps,
                   classify, lookup, sampler>>

\* One turn of the fan-out loop: wg.Add(1); go ping(ip, &wg)  (lines 176-180).
Spawn ==
    /\ pc = "spawn"
    /\ i <= NumHosts
    /\ wg' = wg + 1
    /\ inflight' = inflight \cup {Target(i)}
    /\ launched' = Append(launched, Target(i))
    /\ UNCHANGED <<arpErr, calls>>
    /\ i' = i + 1
    /\ pc' = IF i + 1 <= NumHosts THEN "spawn" ELSE "wait"
    /\ UNCHANGED <<arpOut, cfgFile, arpTable, todo, deviceDetails, cur,
                   pastIps, classify, lookup, sampler>>

\* A ping goroutine ends: the command has returned or timed out, its result
\* is dropped, and wg.Done() runs.  What the probe did to the neighbor cache
\* is a step of the OS (NeighborCacheDrift).
PingDone(t) ==
    /\ UNCHANGED <<arpErr, calls, launched>>
    /\ t \in inflight
    /\ inflight' = inflight \ {t}
    /\ wg' = wg - 1
    /\ UNCHANGED <<pc, i, arpOut, cfgFile, arpTable, todo, deviceDetails,
                   cur, pastIps, classify, lookup, sampler>>

\* A Wait that does not block.
WaitReleasedAlways(counter) == TRUE
\* wg.Wait() returns when the counter is zero.
WaitReleased(counter) == counter = 0

\* wg.Wait()  (line 181)
Wait ==
    /\ UNCHANGED <<arpErr, calls, launched>>
    /\ pc = "wait"
    /\ WaitReleased(wg)
    /\ pc' = "settle"
    /\ UNCHANGED <<i, wg, inflight, arpOut, cfgFile, arpTable, todo,
                   deviceDetails, cur, pastIps, classify, lookup, sampler>>

\* time.Sleep(1 * time.Second)  (line 182)
Settle ==
    /\ UNCHANGED <<arpErr, calls, launched>>
    /\ pc = "settle"
    /\ pc' = "read"
    /\ UNCHANGED <<i, wg, inflight, arpOut, cfgFile, arpTable, todo,
                   deviceDetails, cur, pastIps, classify, lookup, sampler>>

\* arpTable := getARPTable()  (line 184); the command may fail to run.
ReadTable ==
    /\ pc = "read"
    /\ \E ok \in BOOLEAN :
          /\ arpTable' = getARPTable(ok, arpOut)
          /\ todo' = DOMAIN getARPTable(ok, arpOut)
          /\ arpErr' = ~ok
    /\ UNCHANGED <<calls, launched>>
    /\ pastIps' = pastIps \cup DOMAIN arpTable
    /\ pc' = "range"
    /\ UNCHANGED <<i, wg, inflight, arpOut, cfgFile, deviceDetails, cur,
                   classify, lookup, sampler>>

\* An iteration that leaves the entry out when a call returned an error.
EntryPublishedIfNoError(herr, terr) == herr = NoErr /\ terr = NoErr
\* Whether the iteration reaches line 195: both errors are only printed.
EntryPublished(herr, terr) == TRUE

\* One iteration of the range loop (lines 185-196), in the order Go picks.
ProcessEntry ==
    /\ pc = "range"
    /\ \E ip \in todo, ok \in BOOLEAN :
          LET mac == arpTable[ip]
              res == resolveHostname(ok, arpOut, ip)
              dev == detectDeviceType(mac, res[1], cfgFile)
              cs  == IF EntryPublished(res[2], dev[2])
                     THEN IterationCalls(ip, mac, res[1], dev[1])
                     ELSE <<>>
          IN /\ cur' = [ip |-> ip, mac |-> mac, hostname |-> res[1],
                        herr |-> res[2], deviceType |-> dev[1],
                        terr |-> dev[2], visited |-> TRUE]
             /\ deviceDetails' = ApplyCalls(deviceDetails, cs)
             /\ calls' = calls \o cs
             /\ todo' = todo \ {ip}
    /\ UNCHANGED <<arpErr, launched>>
    /\ UNCHANGED <<pc, i, wg, inflight, arpOut, cfgFile, arpTable, pastIps,
                   classify, lookup, sampler>>

\* The range loop is over and scanAndUpdateMetrics returns.
Return ==
    /\ UNCHANGED <<arpErr, calls, launched>>
    /\ pc = "range"
    /\ todo = {}
    /\ pc' = "sleep"
    /\ UNCHANGED <<i, wg, inflight, arpOut, cfgFile, arpTable, todo,
                   deviceDetails, cur, pastIps, classify, lookup, sampler>>

\* time.Sleep(30 * time.Second), then the next turn of the loop of main.
Sleep ==
    /\ UNCHANGED <<arpErr, calls, launched>>
    /\ pc = "sleep"
    /\ pc' = "start"
    /\ UNCHANGED <<i, wg, inflight, arpOut, cfgFile, arpTable, todo,
                   deviceDetails, cur, pastIps, classify, lookup, sampler>>

(***************************************************************************)
(* The environment.                                                        *)
(***************************************************************************)
\* The OS neighbor cache changes between two runs of arp -a: the reply to a
\* probe adds an entry, an entry expires.
NeighborCacheDrift ==
    /\ UNCHANGED <<arpErr, calls, launched>>
    /\ arpOut' \in ArpOutputs \ {arpOut}
    /\ UNCHANGED <<pc, i, wg, inflight, cfgFile, arpTable, todo,
                   deviceDetails, cur, pastIps, classify, lookup, sampler>>

\* config.yaml is edited, removed or restored between two classifications.
ConfigEdited ==
    /\ UNCHANGED <<arpErr, calls, launched>>
    /\ cfgFile' \in Configs \ {cfgFile}
    /\ UNCHANGED <<pc, i, wg, inflight, arpOut, arpTable, todo,
                   deviceDetails, cur, pastIps, classify, lookup, sampler>>

Discovery ==
    \/ StartCycle
    \/ Spawn
    \/ Wait
    \/ Settle
    \/ ReadTable
    \/ ProcessEntry
    \/ Return
    \/ Sleep

Probe == \E t \in inflight : PingDone(t)

Next ==
    \/ Discovery
    \/ Probe
    \/ NeighborCacheDrift
    \/ ConfigEdited

Spec == Init /\ [][Next]_vars

\* A sampler that runs in the loop of main, between two scans.
SamplerMayRunBetweenScans(discoveryPc) == discoveryPc = "sleep"
\* recordMetrics starts a goroutine of its own (line 200): its steps wait for
\* nothing the discovery goroutine does.
SamplerMayRun(discoveryPc) == TRUE

\* One turn of the loop of recordMetrics up to its sleep (lines 202-214).
Sample ==
    /\ SamplerMayRun(pc)
    /\ sampler.pc = "sample"
    /\ \E c \in CpuReadings, m \in MemReadings :
          sampler' =
             [pc |-> "sleep",
              cpuUsage    |-> IF c[2] /\ Len(c[1]) > 0
                              THEN c[1][1] ELSE sampler.cpuUsage,
              memoryUsage |-> IF m[2] THEN m[1].UsedPercent
                              ELSE sampler.memoryUsage,
              totalMemory |-> IF m[2] THEN m[1].Total ELSE sampler.totalMemory,
              usedMemory  |-> IF m[2] THEN m[1].Used ELSE sampler.usedMemory]
    /\ UNCHANGED <<pc, i, wg, inflight, arpOut, cfgFile, arpTable, todo,
                   deviceDetails, cur, pastIps, arpErr, calls, launched,
                   classify, lookup>>

\* time.Sleep(5 * time.Second)  (line 216)
SamplerSleep ==
    /\ SamplerMayRun(pc)
    /\ sampler.pc = "sleep"
    /\ sampler' = [sampler EXCEPT !.pc = "sample"]
    /\ UNCHANGED <<pc, i, wg, inflight, arpOut, cfgFile, arpTable, todo,
                   deviceDetails, cur, pastIps, arpErr, calls, launched,
                   classify, lookup>>

Sampler ==
    \/ Sample
    \/ SamplerSleep

\* main: both goroutines run.
NextProgram ==
    \/ Next
    \/ Sampler

SpecProgram == Init /\ [][NextProgram]_vars

\* Every probe and every OS command returns, and the goroutine is scheduled.
LiveSpec == Init /\ [][Next]_vars /\ WF_vars(Discovery) /\ WF_vars(Probe)

(***************************************************************************)
(* detectDeviceType on its own: the arguments are drawn, the call is made. *)
(***************************************************************************)
\* The sequences over S of length at most n.
SeqsUpTo(S, n) == UNION {[1..k -> S] : k \in 0..n}

RulePool ==
    {RuleApple, RuleAppleUpper, RuleMobile, RulePhone, RuleAcme,
     RuleAnyMac, RuleAnyHost}
ClassifyConfigs ==
    {Unreadable} \cup {Readable(rs) : rs \in SeqsUpTo(RulePool, MaxRules)}
ClassifyMacs  == {Mac50, Mac50Up, Mac5b, MacZero}
ClassifyHosts ==
    {HostIphone, HostIphoneMixed, HostAndroid, HostOther, UnknownHost, <<>>}

\* The discovery goroutine has not started and its environment is fixed.
CycleAtRest ==
    /\ pc = "start"
    /\ i = 1
    /\ wg = 0
    /\ inflight = {}
    /\ arpOut = <<>>
    /\ cfgFile = Unreadable
    /\ arpTable = EmptyMap
    /\ todo = {}
    /\ deviceDetails = EmptyMap
    /\ cur = NoEntry
    /\ pastIps = {}
    /\ arpErr = FALSE
    /\ calls = <<>>
    /\ launched = <<>>
    /\ sampler = SamplerInit

InitClassify ==
    /\ CycleAtRest
    /\ lookup = LookupIdle
    /\ \E m \in ClassifyMacs, h \in ClassifyHosts, c \in ClassifyConfigs :
          classify = [mac |-> m, hostname |-> h, cfg |-> c,
                      called |-> FALSE, label |-> "", err |-> NoErr]

CallDetectDeviceType ==
    /\ ~classify.called
    /\ LET res == detectDeviceType(classify.mac, classify.hostname, classify.cfg)
       IN classify' = [classify EXCEPT !.called = TRUE,
                                       !.label = res[1], !.err = res[2]]
    /\ UNCHANGED <<cycleVars, lookup>>

NextClassify == CallDetectDeviceType

SpecClassify == InitClassify /\ [][NextClassify]_vars

(***************************************************************************)
(* getARPTable and resolveHostname on their own.                           *)
(***************************************************************************)
LinePool == {Line5, Line5b, Line50, Line7, LineShort, LineBlank}
LookupOutputs == SeqsUpTo(LinePool, MaxLines)
LookupIps == {IP5, IP50, IP7, IP9}

InitLookup ==
    /\ CycleAtRest
    /\ classify = ClassifyIdle
    /\ \E ok \in BOOLEAN, out \in LookupOutputs, ip \in LookupIps :
          lookup = [ok |-> ok, lines |-> out, ip |-> ip, called |-> "",
                    table |-> EmptyMap, hostname |-> <<>>, err |-> NoErr]

CallGetARPTable ==
    /\ lookup.called = ""
    /\ lookup' = [lookup EXCEPT !.called = "getARPTable",
                                !.table = getARPTable(lookup.ok, lookup.lines)]
    /\ UNCHANGED <<cycleVars, classify>>

CallResolveHostname ==
    /\ lookup.called = ""
    /\ LET res == resolveHostname(lookup.ok, lookup.lines, lookup.ip)
       IN lookup' = [lookup EXCEPT !.called = "resolveHostname",
                                   !.hostname = res[1], !.err = res[2]]
    /\ UNCHANGED <<cycleVars, classify>>

NextLookup ==
    \/ CallGetARPTable
    \/ CallResolveHostname

SpecLookup == InitLookup /\ [][NextLookup]_vars

(***************************************************************************)
(* Properties.                                                             *)
(***************************************************************************)
\* The ip labels of the published records.
PublishedIps == {l[1] : l \in DOMAIN deviceDetails}

\* C1: when a run of scanAndUpdateMetrics has returned, the published
\* inventory holds exactly as many records as the neighbor-table snapshot
\* read in that run has entries, and they are the records of its keys,
\* whatever earlier runs read.
C1_InventoryIsLastSnapshot ==
    pc = "sleep" =>
        /\ Cardinality(DOMAIN deviceDetails) = Cardinality(DOMAIN arpTable)
        /\ PublishedIps = DOMAIN arpTable

\* A later cycle has returned with a snapshot smaller than the union of the
\* snapshots read so far.
C1_Witness ==
    /\ pc = "sleep"
    /\ Cardinality(DOMAIN arpTable) = 1
    /\ Cardinality(DOMAIN deviceDetails) = 1
    /\ Cardinality(pastIps \cup DOMAIN arpTable) = 2

\* C2: the neighbor table is read, and entries are resolved, classified and
\* published, only when every probe of the cycle has been launched and has
\* ended; the barrier is released only then, and the settle delay lies
\* between the release and the read.
C2_CompletionBarrier ==
    /\ [](pc \in {"settle", "read", "range"} =>
            /\ i = NumHosts + 1
            /\ inflight = {}
            /\ wg = 0)
    /\ [][(pc # "settle" /\ pc' = "settle") =>
            (pc = "wait" /\ inflight = {})]_vars
    /\ [][(pc # "read" /\ pc' = "read") => pc = "settle"]_vars
    /\ [][(arpTable' # arpTable \/ todo' # todo) =>
            (pc \in {"read", "range"} /\ inflight = {})]_vars

\* An entry has been resolved, classified and published after the sweep.
C2_Witness ==
    /\ pc = "range"
    /\ cur.visited
    /\ i = NumHosts + 1
    /\ inflight = {}
    /\ DOMAIN deviceDetails # {}

\* The rules of the examined call that match its lower-cased arguments.
MatchingRules ==
    {n \in 1..Len(classify.cfg.device_types) :
        RuleMatches(classify.cfg.device_types[n],
                    ToLower(classify.mac), ToLower(classify.hostname))}

\* The least element of a non-empty set of numbers.
Least(S) == CHOOSE n \in S : \A m \in S : n <= m

\* C3: with a readable rule source, when some rule matches, the label is the
\* type of the earliest matching rule in load order.
C3_FirstMatchWins ==
    (classify.called /\ classify.cfg.readable /\ MatchingRules # {}) =>
        /\ classify.label = classify.cfg.device_types[Least(MatchingRules)].type
        /\ classify.err = NoErr

\* Two rules match; the earlier one by a hostname keyword only, the later one
\* by a MAC prefix, and the label is the earlier rule's.
C3_Witness ==
    /\ classify.called
    /\ classify.cfg.readable
    /\ MatchingRules = {1, 2}
    /\ LET r1 == classify.cfg.device_types[1]
           r2 == classify.cfg.device_types[2]
       IN /\ r1.type # r2.type
          /\ ~\E k \in 1..Len(r1.mac_prefixes) :
                 HasPrefix(ToLower(classify.mac), r1.mac_prefixes[k])
          /\ \E k \in 1..Len(r2.mac_prefixes) :
                 HasPrefix(ToLower(classify.mac), r2.mac_prefixes[k])
          /\ classify.label = r1.type

\* C4: the record published for an entry whose hostname resolution returned
\* an error carries the hostname "<unknown>".
C4_SentinelOnFailedResolution ==
    (cur.visited /\ cur.herr # NoErr) =>
        <<cur.ip, cur.mac, UnknownHost, cur.deviceType>> \in DOMAIN deviceDetails

\* The address a line of the neighbor table is about: its second field
\* without the parentheses.
LineAddresses(lines) ==
    {Trim(Fields(lines[n])[2], {"(", ")"}) :
        n \in {k \in 1..Len(lines) : Len(Fields(lines[k])) >= 2}}

\* C5: for an address that is the address of no line of the output,
\* resolveHostname returns the not-found error and no hostname.
C5_AbsentAddressNotFound ==
    (/\ lookup.called = "resolveHostname"
     /\ lookup.ok
     /\ lookup.ip \notin LineAddresses(lookup.lines)) =>
        /\ lookup.err = ErrNotFound
        /\ lookup.hostname = <<>>

\* A rule with its matchers lower-cased.
FoldRule(rule) ==
    Rule(rule.type,
         [k \in 1..Len(rule.mac_prefixes) |-> ToLower(rule.mac_prefixes[k])],
         [k \in 1..Len(rule.hostname_keywords) |->
             ToLower(rule.hostname_keywords[k])])

\* The rules of the examined call that match when matchers and arguments are
\* compared up to letter case.
FoldMatchingRules ==
    {n \in 1..Len(classify.cfg.device_types) :
        RuleMatches(FoldRule(classify.cfg.device_types[n]),
                    ToLower(classify.mac), ToLower(classify.hostname))}

\* C6: matchers are compared up to letter case: the label is the type of the
\* earliest rule of which a matcher equals, up to letter case, a prefix of the
\* hardware address or a part of the hostname.
C6_MatchersCaseNormalized ==
    (classify.called /\ classify.cfg.readable /\ FoldMatchingRules # {}) =>
        classify.label = classify.cfg.device_types[Least(FoldMatchingRules)].type

\* Every matcher of every rule of the examined call is declared in lower case.
RulesDeclaredLower ==
    \A n \in 1..Len(classify.cfg.device_types) :
        FoldRule(classify.cfg.device_types[n]) = classify.cfg.device_types[n]

\* C7: against rules declared in lower case, the arguments are compared up to
\* letter case: the label is the type of the earliest rule that matches the
\* lower-cased arguments ("unknown" when there is none), which is also the
\* label of the lower-cased arguments themselves.
C7_InputCaseInsensitive ==
    (classify.called /\ classify.cfg.readable /\ RulesDeclaredLower) =>
        /\ classify.label =
              IF FoldMatchingRules # {}
              THEN classify.cfg.device_types[Least(FoldMatchingRules)].type
              ELSE UnknownType
        /\ classify.label =
              detectDeviceType(ToLower(classify.mac), ToLower(classify.hostname),
                               classify.cfg)[1]

\* An upper-case hardware address is matched by a lower-case MAC prefix, and
\* a mixed-case hostname by a lower-case keyword.
C7_Witness ==
    /\ classify.called
    /\ classify.cfg = Readable(<<RulePhone, RuleApple>>)
    /\ classify.mac = Mac50Up
    /\ classify.hostname = HostIphoneMixed
    /\ classify.label = "phone"

\* Every entry of the snapshot has exactly one record, and no other record
\* is published.
OneRecordPerEntry ==
    /\ \A ip \in DOMAIN arpTable :
          Cardinality({l \in DOMAIN deviceDetails :
                          l[1] = ip /\ l[2] = arpTable[ip]}) = 1
    /\ Cardinality(DOMAIN deviceDetails) = Cardinality(DOMAIN arpTable)

\* C8: every started cycle returns, with exactly one record for every entry
\* of the snapshot it read; every iteration publishes one record, whatever
\* errors its calls returned; and the next cycle starts.
C8_CycleCompletes ==
    /\ [](pc = "sleep" => OneRecordPerEntry)
    /\ [][todo' # todo /\ pc = "range" =>
            /\ Cardinality(DOMAIN deviceDetails') =
                  Cardinality(DOMAIN deviceDetails) + 1
            /\ <<cur'.ip, cur'.mac, cur'.hostname, cur'.deviceType>>
                  \in DOMAIN deviceDetails']_vars
    /\ (pc = "spawn") ~> (pc = "sleep")
    /\ (pc = "sleep") ~> (pc = "spawn")

\* A cycle over two entries has returned, and in its last iteration both
\* the hostname resolution and the classification returned an error.
C8_Witness ==
    /\ pc = "sleep"
    /\ Cardinality(DOMAIN arpTable) = 2
    /\ Cardinality(DOMAIN deviceDetails) = 2
    /\ cur.herr # NoErr
    /\ cur.terr # NoErr

\* C9: an iteration that runs while the rule source cannot be read or parsed
\* gets "unknown" and an error from detectDeviceType and still publishes the
\* entry's record, with device_type "unknown"; the cycle returns with a
\* record for every entry.
C9_UnreadableRulesDegrade ==
    /\ [][(pc = "range" /\ todo' # todo /\ ~cfgFile.readable) =>
            /\ cur'.deviceType = UnknownType
            /\ cur'.terr # NoErr
            /\ <<cur'.ip, cur'.mac, cur'.hostname, UnknownType>>
                  \in DOMAIN deviceDetails']_vars
    /\ [](pc = "sleep" => PublishedIps = DOMAIN arpTable)

\* A cycle has returned whose last entry was classified while the rule
\* source was unreadable, and its record is published as "unknown".
C9_Witness ==
    /\ pc = "sleep"
    /\ cur.visited
    /\ cur.terr = ErrConfig
    /\ <<cur.ip, cur.mac, cur.hostname, UnknownType>> \in DOMAIN deviceDetails

\* C10: with a readable rule source of which no rule matches (an empty rule
\* list included), the label is "unknown" and the error is nil.
C10_NoMatchIsUnknown ==
    (classify.called /\ classify.cfg.readable /\ MatchingRules = {}) =>
        /\ classify.label = UnknownType
        /\ classify.err = NoErr

\* A call with rules of which none matches has returned "unknown".
C10_Witness ==
    /\ classify.called
    /\ classify.cfg.readable
    /\ Len(classify.cfg.device_types) = MaxRules
    /\ MatchingRules = {}
    /\ classify.label = UnknownType
    /\ classify.err = NoErr

\* C11: when arp -a fails to run in getARPTable, the map is empty whatever
\* the neighbor cache holds; the range loop visits nothing, the cycle returns
\* with an empty inventory, and the next cycle starts.
C11_ArpFailureIsEmptyTable ==
    /\ [](arpErr => (/\ arpTable = EmptyMap
                     /\ todo = {}
                     /\ deviceDetails = EmptyMap))
    /\ (arpErr /\ pc = "range") ~>
          (pc = "sleep" /\ arpErr /\ deviceDetails = EmptyMap)
    /\ (arpErr /\ pc = "sleep") ~> (pc = "spawn")

\* A cycle has returned after the command failed, while the neighbor cache
\* holds entries and an earlier cycle had read some.
C11_Witness ==
    /\ pc = "sleep"
    /\ arpErr
    /\ arpOut # <<>>
    /\ pastIps # {}
    /\ deviceDetails = EmptyMap

\* The entries of the snapshot the range loop has visited.
VisitedIps == (DOMAIN arpTable) \ todo

\* C12: the calls a cycle makes on the inventory gauge are one Reset, first,
\* and after it only Sets: none before the neighbor table is read, then one
\* per visited entry, with labels (ip, mac, hostname, device_type) of that
\* entry and value 1, so that the cycle returns with one Set per entry.
C12_PublishProtocol ==
    calls # <<>> =>
        /\ calls[1] = ResetCall
        /\ \A k \in 2..Len(calls) :
              /\ calls[k].op = "Set"
              /\ calls[k].value = 1
              /\ Len(calls[k].labels) = 4
        /\ \A j, k \in 2..Len(calls) :
              j # k => calls[j].labels[1] # calls[k].labels[1]
        /\ pc \in {"spawn", "wait", "settle", "read"} => Len(calls) = 1
        /\ pc \in {"range", "sleep"} =>
              /\ Len(calls) = 1 + Cardinality(VisitedIps)
              /\ {<<calls[k].labels[1], calls[k].labels[2]>> : k \in 2..Len(calls)}
                    = {<<ip, arpTable[ip]>> : ip \in VisitedIps}
        /\ deviceDetails = ApplyCalls(EmptyMap, calls)

\* A cycle over two entries has returned: one Reset, then two Sets.
C12_Witness ==
    /\ pc = "sleep"
    /\ Len(calls) = 3
    /\ Cardinality(DOMAIN arpTable) = 2
    /\ Cardinality(DOMAIN deviceDetails) = 2

\* The lines of the examined output with at least four fields.
LongLines == {n \in 1..Len(lookup.lines) : Len(Fields(lookup.lines[n])) >= 4}

\* The key of a line: its second field without the surrounding parentheses.
LineKey(n) == Trim(Fields(lookup.lines[n])[2], {"(", ")"})

\* C13 as stated: the map has an entry for exactly the lines with at least
\* four fields, each keyed by the line's second field without parentheses
\* and valued by that line's fourth field.
C13_EveryLineHasItsEntry ==
    (lookup.called = "getARPTable" /\ lookup.ok) =>
        /\ DOMAIN lookup.table = {LineKey(n) : n \in LongLines}
        /\ \A n \in LongLines :
              lookup.table[LineKey(n)] = Fields(lookup.lines[n])[4]

\* C13, amended: the keys of the map are exactly the keys of the lines with
\* at least four fields, and each key is valued by the fourth field of the
\* last such line with that key; shorter lines add nothing.
C13_LastLineOfKeyWins ==
    (lookup.called = "getARPTable" /\ lookup.ok) =>
        /\ DOMAIN lookup.table = {LineKey(n) : n \in LongLines}
        /\ \A n \in LongLines :
              (\A m \in LongLines : LineKey(m) = LineKey(n) => m <= n) =>
                  lookup.table[LineKey(n)] = Fields(lookup.lines[n])[4]

\* Two lines of the output have the same address and different hardware
\* addresses, and the map holds the second one's.
C13_Witness ==
    /\ lookup.called = "getARPTable"
    /\ lookup.ok
    /\ lookup.lines = <<Line5, Line5b>>
    /\ lookup.table = MapSet(EmptyMap, IP5, Mac5b)

\* The targets handed to go ping so far in the cycle.
LaunchedTargets == {launched[k] : k \in 1..Len(launched)}

\* C14: in a cycle the k-th probe launched is the one of host-id k, its
\* target the subnet prefix followed by k in decimal; no target is launched
\* twice, the sweep ends with one probe for each host-id from 1 to the last,
\* and host-id 0 and the one after the last are never probed.  Over the
\* program's range 1..254 these targets are pairwise different and none is
\* the target of host-id 0 or 255.
C14_OneProbePerHost ==
    /\ \A k \in 1..Len(launched) : launched[k] = subnet \o Itoa(k)
    /\ Cardinality(LaunchedTargets) = Len(launched)
    /\ Len(launched) <= NumHosts
    /\ pc \in {"wait", "settle", "read", "range", "sleep"} =>
          Len(launched) = NumHosts
    /\ subnet \o Itoa(0) \notin LaunchedTargets
    /\ subnet \o Itoa(NumHosts + 1) \notin LaunchedTargets
    /\ inflight \subseteq LaunchedTargets
    /\ (pc = "spawn" /\ launched = <<>>) =>
          /\ Cardinality({subnet \o Itoa(h) : h \in 1..LastHost}) = LastHost
          /\ subnet \o Itoa(0) \notin {subnet \o Itoa(h) : h \in 1..LastHost}
          /\ subnet \o Itoa(LastHost + 1)
                \notin {subnet \o Itoa(h) : h \in 1..LastHost}

\* The fan-out loop has ended with probes still running.
C14_Witness ==
    /\ pc = "wait"
    /\ Len(launched) = NumHosts
    /\ Cardinality(inflight) = NumHosts
    /\ wg = NumHosts

\* The lines of the examined output whose address is the queried address.
OwnLines ==
    {n \in 1..Len(lookup.lines) :
        /\ Len(Fields(lookup.lines[n])) >= 2
        /\ Trim(Fields(lookup.lines[n])[2], {"(", ")"}) = lookup.ip}

\* C15: for an address present in the output, resolveHostname returns, with
\* no error, the first field of a line whose address is that address, or
\* "<unknown>" when that field is "?".
C15_HostnameOfOwnLine ==
    (/\ lookup.called = "resolveHostname"
     /\ lookup.ok
     /\ OwnLines # {}) =>
        /\ lookup.err = NoErr
        /\ \E n \in OwnLines :
              lookup.hostname =
                 IF Fields(lookup.lines[n])[1] = HostPlaceholder
                 THEN UnknownHost
                 ELSE Fields(lookup.lines[n])[1]

\* What the discovery goroutine and its probes read and write.
discoveryVars ==
    <<pc, i, wg, inflight, arpTable, todo, deviceDetails, cur, pastIps,
      arpErr, calls, launched>>

\* C16: in every state the sampler goroutine can take its next step,
\* whatever the discovery goroutine is doing, and the discovery goroutine or
\* one of its probes can take a step, whatever the sampler is doing; a step
\* of the discovery side leaves the four resource gauges as they are, and a
\* step of the sampler leaves the inventory and the discovery state as they
\* are.
C16_LoopsIndependent ==
    /\ [](ENABLED Sampler)
    /\ [](ENABLED (Discovery \/ Probe))
    /\ [][discoveryVars' # discoveryVars => sampler' = sampler]_vars
    /\ [][sampler' # sampler => discoveryVars' = discoveryVars]_vars

\* The discovery goroutine waits at the barrier with the inventory cleared,
\* and the sampler has meanwhile set its gauges and sleeps.
C16_Witness ==
    /\ pc = "wait"
    /\ inflight # {}
    /\ sampler.pc = "sleep"
    /\ sampler.cpuUsage = 17
    /\ sampler.totalMemory = 16

\* C17: from the start of the fan-out, through the barrier wait, the settle
\* delay and the read of the neighbor table, until the first iteration of
\* the range loop has published its record, the inventory is empty.
C17_InventoryGap ==
    (\/ pc \in {"spawn", "wait", "settle", "read"}
     \/ (pc = "range" /\ todo = DOMAIN arpTable)) =>
        deviceDetails = EmptyMap

\* A cycle is in its settle delay with an empty inventory, and the cycle
\* before it had read, and published, two entries.
C17_Witness ==
    /\ pc = "settle"
    /\ Cardinality(DOMAIN arpTable) = 2
    /\ pastIps # {}
    /\ deviceDetails = EmptyMap

\* The rules of the examined call that declare an empty-string MAC prefix
\* or an empty-string hostname keyword.
EmptyMatcherRules ==
    {n \in 1..Len(classify.cfg.device_types) :
        LET rule == classify.cfg.device_types[n]
        IN \/ \E k \in 1..Len(rule.mac_prefixes) : Len(rule.mac_prefixes[k]) = 0
           \/ \E k \in 1..Len(rule.hostname_keywords) :
                 Len(rule.hostname_keywords[k]) = 0}

\* C18: with a readable rule source of which a rule declares an empty-string
\* matcher, every input gets, with no error, the type of that rule or of a
\* rule before it that matches; it is that rule's type when no earlier rule
\* matches, and never "unknown" or the type of a later rule.
C18_EmptyMatcherMatchesAll ==
    (classify.called /\ classify.cfg.readable /\ EmptyMatcherRules # {}) =>
        LET rules == classify.cfg.device_types
            n == Least(EmptyMatcherRules)
            earlier == {m \in 1..(n - 1) :
                          RuleMatches(rules[m], ToLower(classify.mac),
                                      ToLower(classify.hostname))}
        IN /\ classify.err = NoErr
           /\ classify.label =
                 IF earlier = {} THEN rules[n].type ELSE rules[Least(earlier)].type

\* A rule with an empty MAC prefix comes first and wins over a later rule
\* whose prefix matches the hardware address.
C18_Witness ==
    /\ classify.called
    /\ classify.cfg = Readable(<<RuleAnyMac, RuleApple>>)
    /\ classify.mac = Mac50
    /\ classify.hostname = HostIphone
    /\ classify.label = "any-mac"

=============================================================================
